---- MODULE Spec2Model ----
\* Model of the swapchain lifecycle and frame submission of
\* src/src/engine/ctx/vulkan.rs (GraphicsHandler, SwapchainHandler), and of
\* the main loop of src/src/engine.rs (Engine::run).
\* One call of GraphicsHandler::vulkan_loop is a frame; the frame is cut at
\* the points where a library call yields a result the code branches on.
EXTENDS Integers, Sequences, FiniteSets, TLC

VARIABLES
    pc,                  \* position inside / between calls of vulkan_loop
    caps,                \* surface capabilities read by GraphicsHandler::new
    window,              \* the sdl2 Window: its current drawable size
    swapchain,           \* GraphicsHandler.swapchain : SwapchainHandler
    previous_frame_end,  \* GraphicsHandler.previous_frame_end : Option<..>
    resized,             \* argument of the running call of vulkan_loop
    acquire,             \* result of acquire_next_image in the running call
    command_buffer,      \* local command_buffer of the running call
    future,              \* the future chain built at lines 299-310
    flush,               \* result of then_signal_fence_and_flush
    trace,               \* library calls made by the running (or last) call
    submissions,         \* history: every then_execute with its wait-set
    count,               \* history: calls, recreations, draws, presents
    quiet,               \* history: no resize or staleness signal so far
    hard_failure,        \* history: a non-recoverable GPU failure happened
    earlier_size,        \* history: the window's size before its last change
    engine,              \* Engine::run: position in the main loop, calls made
    events               \* the sdl2 event pump's pending events

vars == <<pc, caps, window, swapchain, previous_frame_end, resized, acquire,
          command_buffer, future, flush, trace, submissions, count, quiet,
          hard_failure, earlier_size, engine, events>>

----------------------------------------------------------------------------
\* Bounds of the model.

MaxFrames == 3          \* calls of vulkan_loop in one behaviour
MaxImageCount == 3      \* largest min_image_count / max_image_count tried
MaxIterations == 3      \* iterations of Engine::run's main loop
MaxEvents == 2          \* events pending in the event pump at one time

\* Drawable sizes the window can take; (0,0) is a minimized window.
Sizes == {<<0, 0>>, <<400, 300>>, <<800, 600>>}

----------------------------------------------------------------------------
\* Option<T> as a sequence of length 0 or 1.

None == <<>>
Some(x) == <<x>>
is_some(o) == Len(o) = 1
unwrap(o) == o[1]

\* std::cmp::{max, min}
max(a, b) == IF a >= b THEN a ELSE b
min(a, b) == IF a <= b THEN a ELSE b

\* `u32 as f32`: the nearest value with a 24 bit mantissa, ties to even.
\* (Defined for n < 2^30, the range TLC's integers leave room for.)
F32Shift(n) == CHOOSE s \in 0..6 : n < 2^(24 + s) /\ (s = 0 \/ n >= 2^(23 + s))
as_f32(n) ==
    LET q == 2^F32Shift(n)
        r == n % q
        base == n - r
    IN  IF r = 0 THEN n
        ELSE IF 2 * r > q \/ (2 * r = q /\ (base \div q) % 2 = 1)
             THEN base + q
             ELSE base

----------------------------------------------------------------------------
\* GPU futures.

\* sync::now(device): a future that is already complete.
NowFuture == [kind |-> "now", frame |-> 0]
\* the fence future of then_signal_fence_and_flush: completion of the work
\* submitted by frame k.
FenceFuture(k) == [kind |-> "fence", frame |-> k]
\* the acquire future of frame k's acquire_next_image.
AcquireFuture(k) == [kind |-> "acquire", frame |-> k]

----------------------------------------------------------------------------
\* GraphicsHandler::new

buffers_count_NoClamp(c) == max(2, c.min_image_count)

buffers_count(c) ==
    IF c.max_image_count = None
    THEN max(2, c.min_image_count)
    ELSE min(max(2, c.min_image_count), unwrap(c.max_image_count))

\* Swapchain::start(..).dimensions(d).num_images(n).build() and
\* chain.recreate().dimensions(d).build(): a chain of generation id with its
\* images, all of the requested dimensions.
build_swapchain(id, dimensions, num_images) ==
    [chain  |-> [id |-> id, dimensions |-> dimensions, num_images |-> num_images],
     images |-> [i \in 1..num_images |->
                   [chain |-> id, index |-> i - 1, dimensions |-> dimensions]]]

EmptyDynamicState == [viewports |-> None]

window_size_dependent_setup_KeepViewport(images, dynamic_state) ==
    [dynamic_state |->
        IF is_some(dynamic_state.viewports) THEN dynamic_state
        ELSE [dynamic_state EXCEPT !.viewports =
                Some(<<[origin |-> <<0, 0>>,
                        dimensions |-> <<as_f32(images[1].dimensions[1]),
                                         as_f32(images[1].dimensions[2])>>]>>)],
     framebuffers |-> [i \in 1..Len(images) |-> [view |-> images[i]]]]

window_size_dependent_setup(images, dynamic_state) ==
    LET dimensions == images[1].dimensions
        viewport == [origin |-> <<0, 0>>,
                     dimensions |-> <<as_f32(dimensions[1]), as_f32(dimensions[2])>>]
    IN  [dynamic_state |-> [dynamic_state EXCEPT !.viewports = Some(<<viewport>>)],
         framebuffers  |-> [i \in 1..Len(images) |-> [view |-> images[i]]]]

new_SwapchainHandler(c, w) ==
    LET built == build_swapchain(0, w.size, buffers_count(c))
        setup == window_size_dependent_setup(built.images, EmptyDynamicState)
    IN  [chain         |-> built.chain,
         images        |-> built.images,
         framebuffers  |-> setup.framebuffers,
         must_recreate |-> FALSE,
         dynamic_state |-> setup.dynamic_state]

----------------------------------------------------------------------------
\* SwapchainHandler

get_recreate(self) == self.must_recreate

set_recreate(self, new_value) == [self EXCEPT !.must_recreate = new_value]

\* Results of chain.recreate().dimensions(d).build() the code distinguishes.
\* A zero-sized surface is never accepted.
BuildResults(dimensions) ==
    IF dimensions[1] = 0 \/ dimensions[2] = 0
    THEN {"UnsupportedDimensions", "OtherError"}
    ELSE {"Ok", "UnsupportedDimensions", "OtherError"}

check_and_recreate_SwallowError(self, w, build) ==
    IF self.must_recreate /\ build = "Ok"
    THEN LET built == build_swapchain(self.chain.id + 1, w.size, self.chain.num_images)
             setup == window_size_dependent_setup(built.images, self.dynamic_state)
         IN  [self |-> [chain |-> built.chain, images |-> built.images,
                        framebuffers |-> setup.framebuffers,
                        must_recreate |-> FALSE,
                        dynamic_state |-> setup.dynamic_state],
              result |-> "Ok"]
    ELSE [self |-> self, result |-> IF build = "OtherError" /\ self.must_recreate
                                    THEN "Panic" ELSE "Ok"]

check_and_recreate_AssignFirst(self, w, build) ==
    IF self.must_recreate
    THEN LET built == build_swapchain(self.chain.id + 1, w.size, self.chain.num_images)
             setup == window_size_dependent_setup(built.images, self.dynamic_state)
         IN  CASE build = "Ok" ->
                    [self |-> [chain |-> built.chain, images |-> built.images,
                               framebuffers |-> setup.framebuffers,
                               must_recreate |-> FALSE,
                               dynamic_state |-> setup.dynamic_state],
                     result |-> "Ok"]
               [] build = "UnsupportedDimensions" ->
                    [self |-> [self EXCEPT !.images = built.images], result |-> "Err"]
               [] OTHER -> [self |-> self, result |-> "Panic"]
    ELSE [self |-> self, result |-> "Ok"]

check_and_recreate_OldDimensions(self, w, build) ==
    IF self.must_recreate
    THEN LET built == build_swapchain(self.chain.id + 1, self.chain.dimensions,
                                      self.chain.num_images)
             setup == window_size_dependent_setup(built.images, self.dynamic_state)
         IN  CASE build = "Ok" ->
                    [self |-> [chain |-> built.chain, images |-> built.images,
                               framebuffers |-> setup.framebuffers,
                               must_recreate |-> FALSE,
                               dynamic_state |-> setup.dynamic_state],
                     result |-> "Ok"]
               [] build = "UnsupportedDimensions" -> [self |-> self, result |-> "Err"]
               [] OTHER -> [self |-> self, result |-> "Panic"]
    ELSE [self |-> self, result |-> "Ok"]

check_and_recreate_GiveUp(self, w, build) ==
    IF self.must_recreate
    THEN LET built == build_swapchain(self.chain.id + 1, w.size, self.chain.num_images)
             setup == window_size_dependent_setup(built.images, self.dynamic_state)
         IN  CASE build = "Ok" ->
                    [self |-> [chain |-> built.chain, images |-> built.images,
                               framebuffers |-> setup.framebuffers,
                               must_recreate |-> FALSE,
                               dynamic_state |-> setup.dynamic_state],
                     result |-> "Ok"]
               [] build = "UnsupportedDimensions" ->
                    [self |-> set_recreate(self, FALSE), result |-> "Err"]
               [] OTHER -> [self |-> self, result |-> "Panic"]
    ELSE [self |-> self, result |-> "Ok"]

check_and_recreate_NoClear(self, w, build) ==
    IF self.must_recreate
    THEN LET built == build_swapchain(self.chain.id + 1, w.size, self.chain.num_images)
             setup == window_size_dependent_setup(built.images, self.dynamic_state)
         IN  CASE build = "Ok" ->
                    [self |-> [chain |-> built.chain, images |-> built.images,
                               framebuffers |-> setup.framebuffers,
                               must_recreate |-> self.must_recreate,
                               dynamic_state |-> setup.dynamic_state],
                     result |-> "Ok"]
               [] build = "UnsupportedDimensions" -> [self |-> self, result |-> "Err"]
               [] OTHER -> [self |-> self, result |-> "Panic"]
    ELSE [self |-> self, result |-> "Ok"]

check_and_recreate_KeepFramebuffers(self, w, build) ==
    IF self.must_recreate
    THEN LET built == build_swapchain(self.chain.id + 1, w.size, self.chain.num_images)
             setup == window_size_dependent_setup(built.images, self.dynamic_state)
         IN  CASE build = "Ok" ->
                    [self |-> [chain |-> built.chain, images |-> built.images,
                               framebuffers |-> self.framebuffers,
                               must_recreate |-> FALSE,
                               dynamic_state |-> setup.dynamic_state],
                     result |-> "Ok"]
               [] build = "UnsupportedDimensions" -> [self |-> self, result |-> "Err"]
               [] OTHER -> [self |-> self, result |-> "Panic"]
    ELSE [self |-> self, result |-> "Ok"]

\* Returns the handler after the call and the call's outcome: "Ok" for
\* Ok(()), "Err" for Err(()), "Panic" for the panic! of line 73.
check_and_recreate(self, w, build) ==
    IF self.must_recreate
    THEN LET dimensions == w.size
         IN  CASE build = "Ok" ->
                    LET built == build_swapchain(self.chain.id + 1, dimensions,
                                                 self.chain.num_images)
                        setup == window_size_dependent_setup(built.images,
                                                             self.dynamic_state)
                    IN  [self |-> [chain         |-> built.chain,
                                   images        |-> built.images,
                                   framebuffers  |-> setup.framebuffers,
                                   must_recreate |-> FALSE,
                                   dynamic_state |-> setup.dynamic_state],
                         result |-> "Ok"]
               [] build = "UnsupportedDimensions" -> [self |-> self, result |-> "Err"]
               [] OTHER -> [self |-> self, result |-> "Panic"]
    ELSE [self |-> self, result |-> "Ok"]

----------------------------------------------------------------------------
\* GraphicsHandler::vulkan_loop, piece by piece.

\* The entry of `trace` for a call of chain.recreate()..build() and its result.
RecreateCall(build) ==
    CASE build = "Ok"                    -> "recreate_Ok"
      [] build = "UnsupportedDimensions" -> "recreate_UnsupportedDimensions"
      [] OTHER                           -> "recreate_OtherError"

recreate_flag_IgnoreResized(r, self) == get_recreate(self)

recreate_flag_DropPending(r, self) == r

\* lines 229-235: a resize forces the flag, otherwise the pending value stays.
recreate_flag(r, self) == IF r THEN TRUE ELSE get_recreate(self)

AcquireResults == {"Ok", "OutOfDate", "OtherError"}
FlushResults == {"Ok", "OutOfDate", "OtherError"}

NotAcquired == [result |-> "NotCalled", image_num |-> 0, suboptimal |-> FALSE,
                future |-> None]

acquired_KeepFlag(self, r, suboptimal) ==
    IF r = "Ok" THEN set_recreate(self, suboptimal) ELSE self

acquired_IgnoreSuboptimal(self, r, suboptimal) ==
    IF r = "OutOfDate" THEN set_recreate(self, TRUE) ELSE self

\* lines 249-258: the swapchain handler after the match on acquire_next_image.
acquired(self, r, suboptimal) ==
    CASE r = "Ok"        -> set_recreate(self, suboptimal)
      [] r = "OutOfDate" -> set_recreate(self, TRUE)
      [] OTHER           -> self

\* lines 251-256: where the call continues after the match.
acquired_pc(r) ==
    CASE r = "Ok"        -> "Recording"
      [] r = "OutOfDate" -> "Idle"
      [] OTHER           -> "Panicked"

wait_set_NoJoin(previous, acquire_future) == {previous}

framebuffer_for_First(self, image_num) == self.framebuffers[1]

\* line 283: self.get_swapchain().framebuffers[image_num]
framebuffer_for(self, image_num) == self.framebuffers[image_num + 1]

\* lines 299-303: previous_frame_end.take().unwrap().join(acquire_future);
\* the joined future is complete when both are.
wait_set(previous, acquire_future) == {previous, acquire_future}

flushed_ClearOnOk(self, r) ==
    IF r = "OutOfDate" THEN set_recreate(self, TRUE)
    ELSE IF r = "Ok" THEN set_recreate(self, FALSE) ELSE self

flushed_NoFlag(self, r) == self

\* lines 311-323: the swapchain handler after the match on the flush result.
flushed(self, r) == IF r = "OutOfDate" THEN set_recreate(self, TRUE) ELSE self

flushed_previous_frame_end_DropOnError(r, k) ==
    IF r = "Ok" THEN Some(FenceFuture(k)) ELSE None

\* lines 311-323: previous_frame_end after the match on the flush result.
flushed_previous_frame_end(r, k) ==
    CASE r = "Ok"        -> Some(FenceFuture(k))
      [] r = "OutOfDate" -> Some(NowFuture)
      [] OTHER           -> Some(NowFuture)

----------------------------------------------------------------------------

\* Engine::run (src/src/engine.rs) at the entry of 'mainloop, with the calls
\* it has made so far.
new_Engine ==
    [pc |-> "LoopTop", iterations |-> 0, clears |-> 0, polls |-> 0, draws |-> 0,
     swaps |-> 0, delays |-> 0, quit_seen |-> FALSE, result |-> None]

Caps ==
    {c \in [min_image_count : 1..MaxImageCount,
            max_image_count : {None} \cup {Some(m) : m \in 1..MaxImageCount}] :
        c.max_image_count = None \/ c.min_image_count <= unwrap(c.max_image_count)}

\* The state GraphicsHandler::new leaves: the chain is built for the window's
\* size (a build that fails panics in `expect`, so the size was accepted).
Init ==
    /\ pc = "Idle"
    /\ caps \in Caps
    /\ window \in {[size |-> s] : s \in {d \in Sizes : "Ok" \in BuildResults(d)}}
    /\ swapchain = new_SwapchainHandler(caps, window)
    /\ previous_frame_end = Some(NowFuture)
    /\ resized = FALSE
    /\ acquire = NotAcquired
    /\ command_buffer = None
    /\ future = None
    /\ flush = "NotCalled"
    /\ trace = <<>>
    /\ submissions = <<>>
    /\ count = [frames |-> 0, recreations |-> 0, draws |-> 0, executes |-> 0,
                presents |-> 0, presents_ok |-> 0]
    /\ quiet = TRUE
    /\ hard_failure = FALSE
    /\ earlier_size = None
    /\ engine = new_Engine
    /\ events = <<>>

\* The window system changes the drawable size between two frames.
WindowResize ==
    /\ pc = "Idle"
    /\ \E s \in Sizes \ {window.size} : window' = [size |-> s]
    /\ earlier_size' = Some(window.size)
    /\ UNCHANGED <<pc, caps, swapchain, previous_frame_end, resized, acquire,
                   command_buffer, future, flush, trace, submissions, count,
                   quiet, hard_failure, engine, events>>

\* lines 226-246: entry of vulkan_loop(resized, window) up to the return of
\* check_and_recreate.
vulkan_loop_begin ==
    /\ pc = "Idle"
    /\ count.frames < MaxFrames
    /\ \E r \in BOOLEAN, build \in BuildResults(window.size) :
         LET flagged == set_recreate(swapchain, recreate_flag(r, swapchain))
             out == check_and_recreate(flagged, window, build)
         IN  /\ resized' = r
             /\ swapchain' = out.self
             /\ pc' = CASE out.result = "Ok"  -> "Acquiring"
                        [] out.result = "Err" -> "Idle"
                        [] OTHER              -> "Panicked"
             /\ trace' = IF flagged.must_recreate THEN <<RecreateCall(build)>>
                                                    ELSE <<>>
             /\ count' = [count EXCEPT
                            !.frames = @ + 1,
                            !.recreations =
                                IF out.self.chain.id # swapchain.chain.id
                                THEN @ + 1 ELSE @]
             /\ quiet' = (quiet /\ ~r)
             /\ hard_failure' =
                    (hard_failure \/ (flagged.must_recreate /\ build = "OtherError"))
    /\ acquire' = NotAcquired
    /\ command_buffer' = None
    /\ future' = None
    /\ flush' = "NotCalled"
    /\ UNCHANGED <<caps, window, previous_frame_end, submissions, earlier_size,
                   engine, events>>

\* lines 248-258: cleanup_finished, acquire_next_image and its match.
vulkan_loop_acquire ==
    /\ pc = "Acquiring"
    /\ IF ~is_some(previous_frame_end)
       THEN \* as_mut().unwrap() on None
            /\ pc' = "Panicked"
            /\ UNCHANGED <<swapchain, acquire, trace, quiet, hard_failure>>
       ELSE \E r \in AcquireResults, image_num \in 0..(Len(swapchain.images) - 1),
               suboptimal \in BOOLEAN :
              /\ r # "Ok" => (image_num = 0 /\ suboptimal = FALSE)
              /\ acquire' = [result |-> r, image_num |-> image_num,
                             suboptimal |-> suboptimal,
                             future |-> IF r = "Ok"
                                        THEN Some(AcquireFuture(count.frames))
                                        ELSE None]
              /\ swapchain' = acquired(swapchain, r, suboptimal)
              /\ pc' = acquired_pc(r)
              /\ trace' = Append(trace, "acquire")
              /\ quiet' = (quiet /\ r # "OutOfDate" /\ ~suboptimal)
              /\ hard_failure' = (hard_failure \/ r = "OtherError")
    /\ UNCHANGED <<caps, window, previous_frame_end, resized, command_buffer,
                   future, flush, submissions, count, earlier_size,
                   engine, events>>

\* lines 260-297: the command buffer builder, the vertex buffer, the render
\* pass on the acquired image's framebuffer with one draw, and build().
vulkan_loop_record ==
    /\ pc = "Recording"
    /\ \E ok \in BOOLEAN :
         IF ok
         THEN /\ command_buffer' =
                    Some([framebuffer |-> framebuffer_for(swapchain, acquire.image_num),
                          dynamic_state |-> swapchain.dynamic_state])
              /\ trace' = Append(trace, "draw")
              /\ count' = [count EXCEPT !.draws = @ + 1]
              /\ pc' = "Submitting"
              /\ UNCHANGED hard_failure
         ELSE \* one of the `expect`s of lines 266-297
              /\ pc' = "Panicked"
              /\ hard_failure' = TRUE
              /\ UNCHANGED <<command_buffer, trace, count>>
    /\ UNCHANGED <<caps, window, swapchain, previous_frame_end, resized, acquire,
                   future, flush, submissions, quiet, earlier_size,
                   engine, events>>

\* lines 299-304: take the previous frame's future, join the acquire future,
\* then_execute the command buffer.
vulkan_loop_execute ==
    /\ pc = "Submitting"
    /\ previous_frame_end' = None
    /\ IF ~is_some(previous_frame_end)
       THEN \* take().unwrap() on None
            /\ pc' = "Panicked"
            /\ UNCHANGED <<future, trace, submissions, count, hard_failure>>
       ELSE \E ok \in BOOLEAN :
              IF ok
              THEN LET waits == wait_set(unwrap(previous_frame_end),
                                         unwrap(acquire.future))
                   IN  /\ future' = Some([waits |-> waits,
                                          command_buffer |-> unwrap(command_buffer),
                                          present |-> None])
                       /\ submissions' = Append(submissions,
                                                [frame |-> count.frames,
                                                 waits |-> waits,
                                                 flush |-> "Pending"])
                       /\ trace' = Append(trace, "execute")
                       /\ count' = [count EXCEPT !.executes = @ + 1]
                       /\ pc' = "Presenting"
                       /\ UNCHANGED hard_failure
              ELSE \* the `expect` of line 304
                   /\ pc' = "Panicked"
                   /\ hard_failure' = TRUE
                   /\ UNCHANGED <<future, trace, submissions, count>>
    /\ UNCHANGED <<caps, window, swapchain, resized, acquire, command_buffer,
                   flush, quiet, earlier_size,
                   engine, events>>

\* lines 305-323: then_swapchain_present, then_signal_fence_and_flush and the
\* match on its result; the call returns.
vulkan_loop_present ==
    /\ pc = "Presenting"
    /\ \E r \in FlushResults :
         /\ flush' = r
         /\ future' = Some([unwrap(future) EXCEPT
                              !.present = Some([chain |-> swapchain.chain.id,
                                                image_num |-> acquire.image_num])])
         /\ swapchain' = flushed(swapchain, r)
         /\ previous_frame_end' = flushed_previous_frame_end(r, count.frames)
         /\ submissions' = [submissions EXCEPT ![Len(submissions)].flush = r]
         /\ trace' = trace \o <<"present", "flush">>
         /\ count' = [count EXCEPT !.presents = @ + 1,
                                   !.presents_ok = IF r = "Ok" THEN @ + 1 ELSE @]
         /\ quiet' = (quiet /\ r # "OutOfDate")
         /\ hard_failure' = (hard_failure \/ r = "OtherError")
    /\ pc' = "Idle"
    /\ UNCHANGED <<caps, window, resized, acquire, command_buffer, earlier_size,
                   engine, events>>

Next ==
    \/ WindowResize
    \/ vulkan_loop_begin
    \/ vulkan_loop_acquire
    \/ vulkan_loop_record
    \/ vulkan_loop_execute
    \/ vulkan_loop_present

Spec == Init /\ [][Next]_vars

----------------------------------------------------------------------------
\* Vocabulary of the properties.

must_recreate == swapchain.must_recreate
viewport == unwrap(swapchain.dynamic_state.viewports)[1]
RecreateCalls == {"recreate_Ok", "recreate_UnsupportedDimensions", "recreate_OtherError"}
\* the running call attempted a recreation
RecreateAttempted == Len(trace) > 0 /\ trace[1] \in RecreateCalls
Called(op) == \E i \in 1..Len(trace) : trace[i] = op

----------------------------------------------------------------------------
\* C1: whenever vulkan_loop has returned (and after construction),
\* previous_frame_end is Some; after a failed flush it holds a fresh
\* already-complete future.
C1_PreviousFrameEndIsSome ==
    pc = "Idle" =>
        /\ is_some(previous_frame_end)
        /\ flush \in {"OutOfDate", "OtherError"} => previous_frame_end = Some(NowFuture)

\* a call whose flush reported OutOfDate has returned
C1_Witness ==
    pc = "Idle" /\ flush = "OutOfDate" /\ previous_frame_end = Some(NowFuture)

\* C2 as stated: of two consecutive submissions the later one waits for the
\* completion of the earlier frame's submitted work and for its own acquire
\* future, whatever the earlier frame's flush reported.
C2_WaitsForEarlierWork ==
    \A i \in 1..(Len(submissions) - 1) :
        /\ FenceFuture(submissions[i].frame) \in submissions[i + 1].waits
        /\ AcquireFuture(submissions[i + 1].frame) \in submissions[i + 1].waits

\* C2 (amended): of two consecutive submissions the later one waits for its own
\* acquire future and for the previous_frame_end the earlier frame left: the
\* completion of the earlier frame's work when its flush succeeded, a fresh
\* already-complete future (and not that completion) when its flush failed.
C2_WaitsForPreviousFrameEnd ==
    \A i \in 1..(Len(submissions) - 1) :
        LET earlier == submissions[i]
            later == submissions[i + 1]
        IN  /\ AcquireFuture(later.frame) \in later.waits
            /\ earlier.flush = "Ok" => FenceFuture(earlier.frame) \in later.waits
            /\ earlier.flush \in {"OutOfDate", "OtherError"} =>
                   /\ NowFuture \in later.waits
                   /\ FenceFuture(earlier.frame) \notin later.waits

\* a frame submits work after a frame whose flush reported OutOfDate
C2_Witness ==
    /\ Len(submissions) = 2
    /\ submissions[1].flush = "OutOfDate"
    /\ NowFuture \in submissions[2].waits
    /\ pc = "Presenting"

\* C3 as stated: a command buffer is never executed and an image never
\* presented while must_recreate is true.
C3_NeverSubmitsWhileFlagged ==
    pc \in {"Submitting", "Presenting"} => ~must_recreate

\* C3 (amended): a chain flagged before acquisition is recreated before
\* anything is executed or presented on it; while a command buffer is executed
\* or an image presented, must_recreate is true only when this frame's own
\* acquisition reported suboptimal.
C3_FlaggedOnlyBySuboptimal ==
    pc \in {"Submitting", "Presenting"} =>
        /\ RecreateAttempted => trace[1] = "recreate_Ok"
        /\ must_recreate => (acquire.result = "Ok" /\ acquire.suboptimal)

\* a frame that was entered flagged is about to present on the recreated chain
C3_Witness ==
    /\ pc = "Presenting"
    /\ RecreateAttempted
    /\ ~resized
    /\ ~must_recreate

\* C4: after a hard GPU failure no further frame is run, the call does not
\* return.
C4_HardFailureTerminates ==
    hard_failure => pc = "Panicked"

\* C5: must_recreate goes from true to false only by a successful recreation
\* inside check_and_recreate, and a frame entered with resized leaves it true
\* unless it recreated.
C5_StalenessIsSticky ==
    [][/\ (must_recreate /\ ~must_recreate') =>
              (pc = "Idle" /\ swapchain'.chain.id = swapchain.chain.id + 1)
       /\ (pc = "Idle" /\ resized' /\ count'.frames # count.frames) =>
              (must_recreate' \/ swapchain'.chain.id = swapchain.chain.id + 1)]_vars

\* the flag set by a suboptimal acquire survived a successful flush and a
\* frame abandoned for UnsupportedDimensions
C5_Witness ==
    /\ pc = "Idle"
    /\ must_recreate
    /\ trace = <<"recreate_UnsupportedDimensions">>
    /\ ~resized
    /\ count.presents_ok >= 1

\* C6: a call whose acquire_next_image reported OutOfDate has returned with
\* must_recreate true, having recorded, executed and presented nothing.
C6_AcquireOutOfDateAbandons ==
    acquire.result = "OutOfDate" =>
        /\ pc = "Idle"
        /\ must_recreate
        /\ trace[Len(trace)] = "acquire"
        /\ ~Called("draw") /\ ~Called("execute") /\ ~Called("present")
        /\ command_buffer = None /\ future = None /\ flush = "NotCalled"
        /\ is_some(previous_frame_end)

C6_Witness ==
    acquire.result = "OutOfDate" /\ pc = "Idle" /\ count.frames >= 2

\* C7: a recreation that fails with UnsupportedDimensions changes nothing of
\* the swapchain handler and leaves must_recreate true.
C7_UnsupportedDimensionsKeepsChain ==
    [][(pc = "Idle" /\ count'.frames # count.frames
            /\ trace' = <<"recreate_UnsupportedDimensions">>) =>
          /\ swapchain'.chain = swapchain.chain
          /\ swapchain'.images = swapchain.images
          /\ swapchain'.framebuffers = swapchain.framebuffers
          /\ swapchain'.dynamic_state = swapchain.dynamic_state
          /\ swapchain'.must_recreate
          /\ pc' = "Idle"]_vars

\* a resized window whose recreation was refused: the chain keeps its size
C7_Witness ==
    /\ pc = "Idle"
    /\ trace = <<"recreate_UnsupportedDimensions">>
    /\ must_recreate
    /\ swapchain.chain.dimensions # window.size
    /\ viewport.dimensions = swapchain.chain.dimensions

\* C8: a successful recreation gives the chain and its images the window's
\* current size.
C8_LastResizeWins ==
    [][swapchain'.chain.id # swapchain.chain.id =>
          /\ swapchain'.chain.dimensions = window.size
          /\ \A i \in 1..Len(swapchain'.images) :
                 swapchain'.images[i].dimensions = window.size]_vars

\* the window went through (0,0) to its current size before the recreation
C8_Witness ==
    /\ pc = "Acquiring"
    /\ trace = <<"recreate_Ok">>
    /\ earlier_size = Some(<<0, 0>>)
    /\ swapchain.chain.dimensions = window.size

\* C9: as long as no frame was resized, no acquisition reported OutOfDate or
\* suboptimal and no flush reported OutOfDate, the N calls that returned made
\* no recreation and N successful presents.
C9_QuietFramesPresent ==
    (pc = "Idle" /\ quiet) =>
        /\ count.recreations = 0
        /\ count.presents_ok = count.frames

\* C10: the dynamic viewport has the dimensions of the chain's images, and a
\* recorded draw carries the viewport of the framebuffer's image.
C10_ViewportMatchesImages ==
    /\ is_some(swapchain.dynamic_state.viewports)
    /\ viewport.dimensions = swapchain.images[1].dimensions
    /\ swapchain.images[1].dimensions = swapchain.chain.dimensions
    /\ is_some(command_buffer) =>
           unwrap(unwrap(command_buffer).dynamic_state.viewports)[1].dimensions
               = unwrap(command_buffer).framebuffer.view.dimensions

\* a draw recorded on a chain recreated after the window changed size
C10_Witness ==
    /\ pc = "Submitting"
    /\ trace[1] = "recreate_Ok"
    /\ is_some(earlier_size)
    /\ viewport.dimensions = window.size

\* C11: in a call whose acquisition succeeded with suboptimal, must_recreate is
\* true from the acquisition on, the call is not abandoned (once it has
\* returned it has recorded, executed and presented the acquired image), and
\* the next call attempts a recreation before it acquires.
C11_SuboptimalFinishesFrame ==
    /\ [](acquire.result = "Ok" /\ acquire.suboptimal =>
            /\ must_recreate
            /\ pc = "Idle" =>
                 /\ trace[Len(trace)] = "flush"
                 /\ Called("draw") /\ Called("execute") /\ Called("present")
                 /\ unwrap(unwrap(future).present).image_num = acquire.image_num)
    /\ [][(pc = "Idle" /\ acquire.result = "Ok" /\ acquire.suboptimal
              /\ count'.frames # count.frames) =>
            (trace' # <<>> /\ trace'[1] \in RecreateCalls /\ ~Called("acquire")')]_vars

\* a call with a suboptimal acquisition has presented and returned
C11_Witness ==
    /\ pc = "Idle"
    /\ acquire.result = "Ok" /\ acquire.suboptimal
    /\ flush = "Ok"
    /\ must_recreate

\* C12: a call whose flush reported OutOfDate has returned normally with
\* must_recreate true and a future installed, and the next call attempts a
\* recreation before it acquires.
C12_FlushOutOfDateFlagsChain ==
    /\ [](flush = "OutOfDate" =>
            /\ pc = "Idle"
            /\ must_recreate
            /\ is_some(previous_frame_end))
    /\ [][(flush = "OutOfDate" /\ count'.frames # count.frames) =>
            (trace' # <<>> /\ trace'[1] \in RecreateCalls /\ Len(trace') = 1)]_vars

\* the flush of a frame acquired without a suboptimal hint reported OutOfDate
C12_Witness ==
    /\ flush = "OutOfDate"
    /\ pc = "Idle"
    /\ ~acquire.suboptimal
    /\ must_recreate

\* C13: a call entered with resized attempts a recreation first, whatever the
\* flag was, and leaves the flag true unless the recreation succeeded; a call
\* entered without resized attempts one exactly when the flag was pending; and
\* a call entered with resized acquires only after a successful recreation.
C13_ResizeAlwaysWins ==
    /\ [][(pc = "Idle" /\ count'.frames # count.frames) =>
            /\ resized' =>
                 /\ trace' \in {<<c>> : c \in RecreateCalls}
                 /\ must_recreate' \/ swapchain'.chain.id = swapchain.chain.id + 1
            /\ ~resized' =>
                 /\ (trace' # <<>>) = must_recreate
                 /\ trace' = <<>> => swapchain' = swapchain]_vars
    /\ []((resized /\ Called("acquire")) => trace[1] = "recreate_Ok")

\* a call entered with resized on an unflagged chain recreated it and goes on
\* to acquire
C13_Witness ==
    /\ pc = "Acquiring"
    /\ resized
    /\ trace = <<"recreate_Ok">>
    /\ count.frames = 1

\* C14: a call whose recreation reported UnsupportedDimensions has returned
\* without a crash, having acquired, recorded, executed and presented nothing,
\* with the chain still flagged; and the call after it attempts the recreation
\* again.
C14_UnsupportedDimensionsRetries ==
    /\ [](trace # <<>> /\ trace[1] = "recreate_UnsupportedDimensions" =>
            /\ pc = "Idle"
            /\ trace = <<"recreate_UnsupportedDimensions">>
            /\ must_recreate
            /\ acquire = NotAcquired
            /\ command_buffer = None /\ future = None /\ flush = "NotCalled"
            /\ is_some(previous_frame_end))
    /\ [][(pc = "Idle" /\ count'.frames # count.frames) =>
            /\ trace' = <<"recreate_UnsupportedDimensions">> =>
                 /\ count'.draws = count.draws
                 /\ count'.executes = count.executes
                 /\ count'.presents = count.presents
                 /\ submissions' = submissions
            /\ trace = <<"recreate_UnsupportedDimensions">> =>
                 trace' \in {<<c>> : c \in RecreateCalls}]_vars

\* the second call found the flag pending and a minimized window, and its
\* recreation was refused
C14_Witness ==
    /\ pc = "Idle"
    /\ trace = <<"recreate_UnsupportedDimensions">>
    /\ window.size = <<0, 0>>
    /\ count.frames = 2
    /\ count.presents = 0
    /\ acquire = NotAcquired
    /\ ~resized

\* The calls of one frame in order, after an optional recreation.
FrameCalls == <<"acquire", "draw", "execute", "present", "flush">>
Prefix(s, n) == SubSeq(s, 1, n)
\* the calls of the running call after its recreation attempt
FrameBody == IF RecreateAttempted THEN Tail(trace) ELSE trace

\* C15: the calls of a frame are a prefix of acquire, record, execute,
\* present (each at most once, in this order), the position in the frame
\* agrees with the calls made, a frame that has returned made none of them,
\* only the acquire, or all of them, the framebuffer drawn into and the image
\* presented are those of the frame's acquired index, and a step of a frame
\* leads to the next position, back to Idle, or to the process's end.
C15_FrameStateMachine ==
    /\ [](/\ Len(FrameBody) <= Len(FrameCalls)
          /\ FrameBody = Prefix(FrameCalls, Len(FrameBody))
          /\ pc = "Acquiring"  => FrameBody = <<>>
          /\ pc = "Recording"  => FrameBody = Prefix(FrameCalls, 1)
          /\ pc = "Submitting" => FrameBody = Prefix(FrameCalls, 2)
          /\ pc = "Presenting" => FrameBody = Prefix(FrameCalls, 3)
          /\ pc = "Idle"       => Len(FrameBody) \in {0, 1, 5}
          /\ Len(FrameBody) >= 1 => acquire.result # "NotCalled"
          /\ Len(FrameBody) >= 2 =>
                 /\ acquire.result = "Ok"
                 /\ unwrap(command_buffer).framebuffer.view.index = acquire.image_num
                 /\ unwrap(command_buffer).framebuffer.view.chain = swapchain.chain.id
          /\ Len(FrameBody) >= 3 =>
                 unwrap(future).command_buffer = unwrap(command_buffer)
          /\ Len(FrameBody) = 5 =>
                 unwrap(unwrap(future).present) =
                     [chain |-> swapchain.chain.id, image_num |-> acquire.image_num])
    /\ [][pc' # pc =>
            \/ pc = "Idle"       /\ pc' \in {"Acquiring", "Panicked"}
            \/ pc = "Acquiring"  /\ pc' \in {"Recording", "Idle", "Panicked"}
            \/ pc = "Recording"  /\ pc' \in {"Submitting", "Panicked"}
            \/ pc = "Submitting" /\ pc' \in {"Presenting", "Panicked"}
            \/ pc = "Presenting" /\ pc' = "Idle"]_vars

\* a frame that drew into the last image's framebuffer, presented it and
\* returned
C15_Witness ==
    /\ pc = "Idle"
    /\ FrameBody = FrameCalls
    /\ acquire.image_num = Len(swapchain.images) - 1
    /\ acquire.image_num > 0

\* C16 as stated: the number of images requested is never below 2 and never
\* above the maximum, for all capability values.
C16_AtLeastTwoImages ==
    /\ swapchain.chain.num_images >= 2
    /\ is_some(caps.max_image_count) =>
           swapchain.chain.num_images <= unwrap(caps.max_image_count)

\* C16 (amended): the number of images requested is max(2, min_image_count)
\* without a maximum and that value clamped to the maximum otherwise; it never
\* exceeds the maximum, and it is below 2 only when the maximum is below 2.
C16_ImageCountClamped ==
    LET n == swapchain.chain.num_images
        lo == caps.min_image_count
        wanted == IF lo > 2 THEN lo ELSE 2
    IN  /\ Len(swapchain.images) = n
        /\ caps.max_image_count = None => n = wanted
        /\ is_some(caps.max_image_count) =>
               LET hi == unwrap(caps.max_image_count)
               IN  /\ n <= hi
                   /\ n = (IF wanted < hi THEN wanted ELSE hi)
                   /\ n < 2 => hi < 2

\* a surface with at most one image: the chain is built with one
C16_Witness ==
    /\ caps.max_image_count = Some(1)
    /\ Len(swapchain.images) = 1
    /\ count.recreations >= 1

----------------------------------------------------------------------------
\* Engine::run (src/src/engine.rs), from the entry of 'mainloop.

graphics_vars == <<pc, caps, window, swapchain, previous_frame_end, resized,
                   acquire, command_buffer, future, flush, trace, submissions,
                   count, quiet, hard_failure, earlier_size>>

Events == {"Quit", "Other"}

on_event_BreakInner(event) == IF event = "Quit" THEN "Draw" ELSE "Events"

\* lines 43-45: `break 'mainloop` on Event::Quit leaves the loop, and run
\* returns at line 54; any other event goes on with the iterator.
on_event(event) == IF event = "Quit" THEN "Returned" ELSE "Events"

\* The window system queues an event.
PostEvent ==
    /\ engine.pc # "Returned"
    /\ Len(events) < MaxEvents
    /\ \E e \in Events : events' = Append(events, e)
    /\ UNCHANGED <<engine, graphics_vars>>

\* lines 36-40: the clear colour and gl_clear at the top of an iteration.
run_clear ==
    /\ engine.pc = "LoopTop"
    /\ engine.iterations < MaxIterations
    /\ engine' = [engine EXCEPT !.pc = "Poll", !.iterations = @ + 1,
                                !.clears = @ + 1]
    /\ UNCHANGED <<events, graphics_vars>>

\* line 42: event_pump.poll_iter()
run_poll ==
    /\ engine.pc = "Poll"
    /\ engine' = [engine EXCEPT !.pc = "Events", !.polls = @ + 1]
    /\ UNCHANGED <<events, graphics_vars>>

\* lines 42-46: one turn of the for loop over the polled events; the iterator
\* ends when no event is pending.
run_event ==
    /\ engine.pc = "Events"
    /\ IF events = <<>>
       THEN /\ engine' = [engine EXCEPT !.pc = "Draw"]
            /\ UNCHANGED events
       ELSE LET next == on_event(Head(events))
            IN  /\ events' = Tail(events)
                /\ engine' = [engine EXCEPT
                                !.pc = next,
                                !.quit_seen = @ \/ Head(events) = "Quit",
                                !.result = IF next = "Returned" THEN Some("Ok")
                                                                ELSE @]
    /\ UNCHANGED graphics_vars

\* line 48: vao.draw()
run_draw ==
    /\ engine.pc = "Draw"
    /\ engine' = [engine EXCEPT !.pc = "Swap", !.draws = @ + 1]
    /\ UNCHANGED <<events, graphics_vars>>

\* line 50: gl_window_swap()
run_swap ==
    /\ engine.pc = "Swap"
    /\ engine' = [engine EXCEPT !.pc = "Delay", !.swaps = @ + 1]
    /\ UNCHANGED <<events, graphics_vars>>

\* line 51: fps_manager.delay()
run_delay ==
    /\ engine.pc = "Delay"
    /\ engine' = [engine EXCEPT !.pc = "LoopTop", !.delays = @ + 1]
    /\ UNCHANGED <<events, graphics_vars>>

NextEngine ==
    \/ PostEvent
    \/ run_clear
    \/ run_poll
    \/ run_event
    \/ run_draw
    \/ run_swap
    \/ run_delay

SpecEngine == Init /\ [][NextEngine]_vars

\* C17: poll_iter is called once in every iteration; run has returned exactly
\* when a polled event was a quit, it then returned Ok, and the iteration of
\* the quit made no draw, swap or delay; an iteration without a quit makes
\* all three.
C17_QuitLeavesMainLoop ==
    /\ engine.polls = (IF engine.pc = "Poll" THEN engine.iterations - 1
                                              ELSE engine.iterations)
    /\ engine.clears = engine.iterations
    /\ (engine.pc = "Returned") = engine.quit_seen
    /\ engine.pc = "Returned" =>
           /\ engine.result = Some("Ok")
           /\ engine.draws = engine.iterations - 1
           /\ engine.swaps = engine.iterations - 1
           /\ engine.delays = engine.iterations - 1
    /\ engine.pc # "Returned" => engine.result = None
    /\ engine.pc = "LoopTop" =>
           /\ engine.draws = engine.iterations
           /\ engine.swaps = engine.iterations
           /\ engine.delays = engine.iterations

\* run returned in its second iteration, on a quit polled after another event
C17_Witness ==
    /\ engine.pc = "Returned"
    /\ engine.iterations = 2
    /\ engine.draws = 1
    /\ events # <<>>

\* C18: whenever acquire_next_image is about to be called, and when it has
\* just been called, the chain it is called on was not flagged: a flagged
\* chain was recreated by this call first.
C18_AcquireOnlyUnflagged ==
    /\ pc = "Acquiring" =>
           /\ ~must_recreate
           /\ RecreateAttempted => (trace = <<"recreate_Ok">> /\ swapchain.chain.id > 0)
    /\ Called("acquire") =>
           (trace[1] = "acquire" \/ trace[1] = "recreate_Ok")

\* a call that found the flag pending is about to acquire from the new chain
C18_Witness ==
    /\ pc = "Acquiring"
    /\ ~resized
    /\ RecreateAttempted
    /\ swapchain.chain.id = 1

\* C19: the chain has one framebuffer per image, each built on the image of
\* the same index of the current chain, so the acquired index selects a
\* framebuffer of the current chain.
C19_FramebufferPerImage ==
    /\ Len(swapchain.framebuffers) = Len(swapchain.images)
    /\ Len(swapchain.images) >= 1
    /\ \A i \in 1..Len(swapchain.images) :
           /\ swapchain.framebuffers[i].view = swapchain.images[i]
           /\ swapchain.images[i].chain = swapchain.chain.id
           /\ swapchain.images[i].index = i - 1
    /\ acquire.result = "Ok" =>
           /\ acquire.image_num + 1 \in DOMAIN swapchain.framebuffers
           /\ framebuffer_for(swapchain, acquire.image_num).view.chain
                  = swapchain.chain.id

\* the last image of a recreated chain was acquired
C19_Witness ==
    /\ pc = "Recording"
    /\ swapchain.chain.id >= 1
    /\ acquire.image_num = Len(swapchain.images) - 1
    /\ Len(swapchain.framebuffers) = 3

----------------------------------------------------------------------------
\* Frames executed fairly: the caller keeps calling vulkan_loop and a call in
\* progress runs on.

FrameStep ==
    \/ vulkan_loop_begin
    \/ vulkan_loop_acquire
    \/ vulkan_loop_record
    \/ vulkan_loop_execute
    \/ vulkan_loop_present

\* A double-buffered surface without a maximum; the number of images plays no
\* part in the recreation.
InitDoubleBuffered ==
    /\ Init
    /\ caps = [min_image_count |-> 2, max_image_count |-> None]

FairSpec == InitDoubleBuffered /\ [][Next]_vars /\ WF_vars(FrameStep)

\* C20: when the chain is flagged during or after call k and another call
\* follows, then call k+1 begins with a recreation attempt that, unless the
\* surface's dimensions are refused or the build fails fatally, has recreated
\* the chain and cleared the flag; the only other way out is a fatal failure
\* in call k itself.
C20_RecreationEventually ==
    \A k \in 0..(MaxFrames - 1) :
        (must_recreate /\ count.frames = k /\ pc # "Panicked")
            ~> \/ pc = "Panicked"
               \/ /\ count.frames = k + 1
                  /\ \/ /\ pc = "Acquiring"
                        /\ trace = <<"recreate_Ok">>
                        /\ ~must_recreate
                        /\ swapchain.chain.dimensions = window.size
                     \/ /\ pc = "Idle"
                        /\ trace = <<"recreate_UnsupportedDimensions">>

\* the flag raised by an abandoned acquisition was cleared by the recreation
\* of the next call
C20_Witness ==
    /\ pc = "Acquiring"
    /\ trace = <<"recreate_Ok">>
    /\ ~must_recreate
    /\ ~resized
    /\ acquire = NotAcquired
    /\ count.frames = 2
    /\ count.recreations = 1
    /\ count.draws = 0

====
